---- MODULE Spec2Model ----
\* A model of db_query_profiler.query_timer: the Runner object, the discovery of
\* statement files, the priming pass and the timed passes of _run_runners, the
\* summary printed by _print_runner_stats, and the entry point time_queries.
\*
\* Time is counted in ticks of one millisecond; a duration returned by
\* timeit.timeit is a whole number of ticks.  Quotients (average_time, the share
\* of the total) are exact rationals <<numerator, denominator>> in lowest terms.
EXTENDS Integers, Sequences, FiniteSets, TLC

\* ---------------------------------------------------------------- bounds
MaxFiles == 2
MaxRepeat == 2
MaxDur == 2
MaxFsEdits == 1
MaxUnitCalls == 3

\* ------------------------------------------------------------- constants
\* "{:.8f}": seconds printed with 8 decimals; one tick is 10^5 units of 10^-8 s.
SecondsScale == 100000
\* "{:.1%}": a ratio printed as a percentage with 1 decimal, i.e. in 1/1000.
PercentScale == 1000

\* ------------------------------------------------------------ file system
Removed == "<removed>"
SubDir == "sub-directory"
FileNames == { "query-1.sql", "query-2.sql", "query-3.sql", "query-4.sql" }
FileIndex(f) ==
  CASE f = "query-1.sql" -> 1 [] f = "query-2.sql" -> 2
    [] f = "query-3.sql" -> 3 [] OTHER -> 4
Files == { f \in FileNames : FileIndex(f) <= MaxFiles }
Texts == { "SELECT 1", "SELECT 2" }
\* what timeit.timeit can return for one execution, in ticks (0: the clock did
\* not advance between its two readings)
Durations == 0 .. MaxDur

\* ------------------------------------------------------------- rationals
RECURSIVE Gcd(_, _)
Gcd(a, b) == IF b = 0 THEN a ELSE Gcd(b, a % b)

Rat(n, d) == LET g == Gcd(n, d) IN <<n \div g, d \div g>>
Zero == <<0, 1>>
IsZero(q) == q[1] = 0
RatAdd(p, q) == Rat(p[1] * q[2] + q[1] * p[2], p[2] * q[2])
RatDiv(p, q) == Rat(p[1] * q[2], p[2] * q[1])

\* round(q * scale) to the nearest integer, ties to even, as "{:f}" rounds
RoundScaled(q, scale) ==
  LET n == q[1] * scale
      lo == n \div q[2]
      twice == 2 * (n % q[2])
  IN  IF twice < q[2] THEN lo
      ELSE IF twice > q[2] THEN lo + 1
      ELSE IF lo % 2 = 0 THEN lo ELSE lo + 1

\* ---------------------------------------------------------------- Runner
\* _safe_divide: "denominator and numerator / denominator"
SafeDivide(numerator, denominator) ==
  IF IsZero(denominator) THEN denominator ELSE RatDiv(numerator, denominator)

\* Runner.__init__: the work reads the file f when it is invoked
NewRunner(f) == [ name |-> f, f |-> f, repeat |-> 0, total_time |-> 0 ]

\* Runner.average_time
\* (faulty variant: the total, not divided by repeat)
AverageTimeOfTotal(r) == Rat(r.total_time, 1)
AverageTime(r) == SafeDivide(Rat(r.total_time, 1), Rat(r.repeat, 1))

\* The outcome of the wrapped work: it raises, or it returns; a timed call that
\* returns has the duration timeit measured as its outcome.
Raise == [ raised |-> TRUE, duration |-> 0 ]
Returned(d) == [ raised |-> FALSE, duration |-> d ]
Outcomes(time_it) ==
  { Raise } \cup IF time_it THEN { Returned(d) : d \in Durations } ELSE { Returned(0) }

\* Runner.__call__(time_it): repeat is incremented before the work runs, the
\* measured duration is added only when the work returns.
\* (faulty variant: an untimed invocation is counted too)
CallCountsPriming(r, time_it, outcome) ==
  IF outcome.raised THEN [ r EXCEPT !.repeat = @ + 1 ]
  ELSE [ r EXCEPT !.repeat = @ + 1, !.total_time = @ + outcome.duration ]
Call(r, time_it, outcome) ==
  IF time_it
  THEN IF outcome.raised THEN [ r EXCEPT !.repeat = @ + 1 ]
       ELSE [ r EXCEPT !.repeat = @ + 1, !.total_time = @ + outcome.duration ]
  ELSE r

\* Runner.format_runtime(total_avg_time): the name, the seconds and the
\* percentage as printed; share is the exact ratio that "{:.1%}" is given.
FormatRuntime(r, total_avg_time) ==
  LET share == SafeDivide(AverageTime(r), total_avg_time)
  IN  [ kind |-> "summary",
        name |-> r.name,
        seconds |-> RoundScaled(AverageTime(r), SecondsScale),
        share |-> share,
        percent |-> RoundScaled(share, PercentScale) ]

\* ------------------------------------------------------------------ state
VARIABLES
  pc,         \* position in time_queries, or "unit" in the Runner harness
  dirExists,  \* whether the directory argument exists
  listing,    \* what directory.glob("*") yields, in order
  fs,         \* file -> its text, or Removed
  fsEdits,    \* number of changes other processes made to the files
  repeat,     \* the repeat argument
  globbed,    \* whether the directory has been enumerated
  runners,    \* the list of Runners
  round,      \* the loop variable of "for _ in trange(repeat)", from 1
  j,          \* index of the next Runner of the running pass
  error,      \* the exception that left the program, or "none"
  output,     \* the lines printed so far
  calls,      \* every Runner invocation so far: [i, time_it, ok]
  measured,   \* runner index -> the sum of the durations timeit returned for it
  executed    \* every statement handed to conn.execute: <<file, text>>

vars == << pc, dirExists, listing, fs, fsEdits, repeat, globbed, runners, round,
           j, error, output, calls, measured, executed >>

\* ------------------------------------------------------- directory listings
RECURSIVE Perms(_)
Perms(S) ==
  IF S = {} THEN { <<>> }
  ELSE UNION { { <<x>> \o p : p \in Perms(S \ {x}) } : x \in S }

\* the listings of a directory holding some of the Files and maybe a subdirectory
Listings == UNION { Perms(S) : S \in SUBSET (Files \cup { SubDir }) }

IsFile(path) == path # SubDir

RECURSIVE SelectFiles(_)
SelectFiles(paths) ==
  IF paths = <<>> THEN <<>>
  ELSE IF IsFile(Head(paths)) THEN <<Head(paths)>> \o SelectFiles(Tail(paths))
  ELSE SelectFiles(Tail(paths))

\* _get_query_filepaths: the regular files of the listing, in listing order
GetQueryFilepaths(paths) == SelectFiles(paths)

\* _create_query_runners: one Runner per path, in that order
CreateRunners(paths) == [ i \in 1 .. Len(paths) |-> NewRunner(paths[i]) ]

\* ------------------------------------------------------------ _run_runners
\* The position after Runner j of a pass has been invoked: the next Runner of
\* the pass, else the first Runner of the next pass, else the summary.
\* (faulty variant: all the rounds of one Runner before the next Runner)
NextPositionRunnerMajor(phase, rnd, idx) ==
  IF phase = "prime"
  THEN IF idx < Len(runners) THEN <<"prime", 0, idx + 1>>
       ELSE IF repeat > 0 /\ Len(runners) > 0 THEN <<"timed", 1, 1>>
       ELSE <<"print", 0, 0>>
  ELSE IF rnd < repeat THEN <<"timed", rnd + 1, idx>>
       ELSE IF idx < Len(runners) THEN <<"timed", 1, idx + 1>>
       ELSE <<"print", 0, 0>>
NextPosition(phase, rnd, idx) ==
  IF phase = "prime"
  THEN IF idx < Len(runners) THEN <<"prime", 0, idx + 1>>
       ELSE IF repeat > 0 /\ Len(runners) > 0 THEN <<"timed", 1, 1>>
       ELSE <<"print", 0, 0>>
  ELSE IF idx < Len(runners) THEN <<"timed", rnd, idx + 1>>
       ELSE IF rnd < repeat THEN <<"timed", rnd + 1, 1>>
       ELSE <<"print", 0, 0>>

\* One invocation runners[i](time_it) whose work ends with `outcome`: the work
\* reads the file (which raises when the file is gone), hands the text to
\* conn.execute, and the Runner updates its counters.
Invoke(i, time_it, outcome) ==
  LET r == runners[i]
      text == fs[r.f]
  IN  /\ text = Removed => outcome.raised
      /\ executed' = IF text = Removed THEN executed
                     ELSE Append(executed, <<r.f, text>>)
      /\ runners' = [ runners EXCEPT ![i] = Call(r, time_it, outcome) ]
      /\ calls' = Append(calls, [ i |-> i, time_it |-> time_it, ok |-> ~outcome.raised ])
      /\ measured' = IF time_it /\ ~outcome.raised
                     THEN [ measured EXCEPT ![i] = @ + outcome.duration ]
                     ELSE measured

\* What an exception raised by the work is
WorkError(i) == IF fs[runners[i].f] = Removed THEN "FileNotFoundError(file)" ELSE "ExecuteError"

\* A step of a pass of _run_runners: invoke Runner j; an exception leaves
\* _run_runners and time_queries at once.
\* (faulty variant: an exception is swallowed and the pass goes on)
RunStepSwallow(phase, time_it) ==
  /\ \E outcome \in Outcomes(time_it) :
       /\ Invoke(j, time_it, outcome)
       /\ LET nxt == NextPosition(phase, round, j)
          IN  /\ pc' = nxt[1] /\ round' = nxt[2] /\ j' = nxt[3]
              /\ error' = error
  /\ UNCHANGED << dirExists, listing, fs, fsEdits, repeat, globbed, output >>
RunStep(phase, time_it) ==
  /\ \E outcome \in Outcomes(time_it) :
       /\ Invoke(j, time_it, outcome)
       /\ IF outcome.raised
          THEN /\ pc' = "raised"
               /\ error' = WorkError(j)
               /\ UNCHANGED << round, j >>
          ELSE LET nxt == NextPosition(phase, round, j)
               IN  /\ pc' = nxt[1] /\ round' = nxt[2] /\ j' = nxt[3]
                   /\ error' = error
  /\ UNCHANGED << dirExists, listing, fs, fsEdits, repeat, globbed, output >>

\* "for runner in runners: runner(time_it=False)"
PrimingPass ==
  /\ pc = "prime"
  /\ RunStep("prime", FALSE)

\* "for _ in trange(repeat): for runner in runners: runner()"
TimedPass ==
  /\ pc = "timed"
  /\ RunStep("timed", TRUE)

\* ------------------------------------------------------ _print_runner_stats
RECURSIVE RatSum(_)
RatSum(qs) == IF qs = <<>> THEN Zero ELSE RatAdd(Head(qs), RatSum(Tail(qs)))

\* "sum(runner.average_time for runner in runners)"
\* (faulty variant: the sum of total_time instead of average_time)
TotalAvgTimeOfTotals(rs) == RatSum([ i \in 1 .. Len(rs) |-> Rat(rs[i].total_time, 1) ])
TotalAvgTime(rs) == RatSum([ i \in 1 .. Len(rs) |-> AverageTime(rs[i]) ])

\* the lines _print_runner_stats prints for rs
SummaryLines(rs) == [ i \in 1 .. Len(rs) |-> FormatRuntime(rs[i], TotalAvgTime(rs)) ]

\* -------------------------------------------------------------- time_queries
Rule == [ kind |-> "text", text |-> "----------------------------------------" ]
Banner == << [ kind |-> "text", text |-> "Start time" ], Rule >>
Footer == << Rule, [ kind |-> "text", text |-> "End time" ] >>

\* the wrapper of _print_times prints the banner, then time_queries checks that
\* the directory exists
\* (faulty variant: the existence check is missing)
TimeQueriesEnterNoCheck ==
  /\ pc = "call"
  /\ output' = output \o Banner
  /\ pc' = "create"
  /\ UNCHANGED << dirExists, listing, fs, fsEdits, repeat, globbed, runners, round,
                  j, error, calls, measured, executed >>
TimeQueriesEnter ==
  /\ pc = "call"
  /\ output' = output \o Banner
  /\ IF dirExists
     THEN pc' = "create" /\ error' = error
     ELSE pc' = "raised" /\ error' = "FileNotFoundError"
  /\ UNCHANGED << dirExists, listing, fs, fsEdits, repeat, globbed, runners, round,
                  j, calls, measured, executed >>

\* "runners = _create_query_runners(directory, conn)", then _run_runners starts
CreateQueryRunners ==
  /\ pc = "create"
  /\ globbed' = TRUE
  /\ runners' = CreateRunners(GetQueryFilepaths(listing))
  /\ measured' = [ i \in 1 .. Len(runners') |-> 0 ]
  /\ IF Len(runners') > 0
     THEN pc' = "prime" /\ j' = 1
     ELSE pc' = "print" /\ j' = 0
  /\ UNCHANGED << dirExists, listing, fs, fsEdits, repeat, round, error, output,
                  calls, executed >>

\* "_print_runner_stats(runners)", then the wrapper prints the footer
PrintRunnerStats ==
  /\ pc = "print"
  /\ output' = output \o SummaryLines(runners) \o Footer
  /\ pc' = "done"
  /\ UNCHANGED << dirExists, listing, fs, fsEdits, repeat, globbed, runners, round,
                  j, error, calls, measured, executed >>

\* Another process rewrites or removes a statement file during the run.
EditFile ==
  /\ pc \in { "prime", "timed" }
  /\ fsEdits < MaxFsEdits
  /\ \E f \in { p \in DOMAIN fs : fs[p] # Removed }, t \in Texts \cup { Removed } :
       /\ t # fs[f]
       /\ fs' = [ fs EXCEPT ![f] = t ]
  /\ fsEdits' = fsEdits + 1
  /\ UNCHANGED << pc, dirExists, listing, repeat, globbed, runners, round, j, error,
                  output, calls, measured, executed >>

\* the text each statement file holds when time_queries is called
InitialText(f) == IF FileIndex(f) % 2 = 1 THEN "SELECT 1" ELSE "SELECT 2"

InitCommon ==
  /\ dirExists \in BOOLEAN
  /\ listing \in IF dirExists THEN Listings ELSE { <<>> }
  /\ fs = [ f \in { listing[i] : i \in 1 .. Len(listing) } \ { SubDir } |-> InitialText(f) ]
  /\ fsEdits = 0
  /\ round = 0
  /\ error = "none"
  /\ output = <<>>
  /\ calls = <<>>
  /\ executed = <<>>

\* time_queries(conn, repeat, directory) has just been called
Init ==
  /\ InitCommon
  /\ repeat \in 0 .. MaxRepeat
  /\ pc = "call"
  /\ globbed = FALSE
  /\ runners = <<>>
  /\ measured = <<>>
  /\ j = 0

Next ==
  \/ TimeQueriesEnter
  \/ CreateQueryRunners
  \/ PrimingPass
  \/ TimedPass
  \/ PrintRunnerStats

Spec == Init /\ [][Next]_vars

\* the same run while other processes may change the statement files
NextFs == Next \/ EditFile

FsSpec == Init /\ [][NextFs]_vars

\* ---------------------------------------------------------- Runner harness
\* A caller that holds the Runners of _create_query_runners, invokes any of them
\* with either value of time_it, catches what the work raises, and prints the
\* summary (as the unit tests use Runner and _print_runner_stats).
UnitCall ==
  /\ pc = "unit"
  /\ Len(calls) < MaxUnitCalls
  /\ \E i \in 1 .. Len(runners), time_it \in BOOLEAN :
       \E outcome \in Outcomes(time_it) : Invoke(i, time_it, outcome)
  /\ UNCHANGED << pc, dirExists, listing, fs, fsEdits, repeat, globbed, round, j,
                  error, output >>

UnitPrint ==
  /\ pc = "unit"
  /\ output' = output \o SummaryLines(runners)
  /\ pc' = "done"
  /\ UNCHANGED << dirExists, listing, fs, fsEdits, repeat, globbed, runners, round,
                  j, error, calls, measured, executed >>

\* the directory of the unit tests: the first n statement files and a subdirectory
RECURSIVE TestListing(_)
TestListing(n) ==
  IF n = 0 THEN << SubDir >>
  ELSE TestListing(n - 1) \o << CHOOSE f \in Files : FileIndex(f) = n >>

InitRunner ==
  /\ InitCommon
  /\ dirExists
  /\ listing \in { TestListing(n) : n \in 1 .. MaxFiles }
  /\ repeat = 0
  /\ pc = "unit"
  /\ globbed = TRUE
  /\ runners = CreateRunners(GetQueryFilepaths(listing))
  /\ measured = [ i \in 1 .. Len(runners) |-> 0 ]
  /\ j = 0

NextRunner == UnitCall \/ UnitPrint

RunnerSpec == InitRunner /\ [][NextRunner]_vars

\* ------------------------------------------------------------ properties
Indices == 1 .. Len(runners)

\* the invocations of Runner i so far, the timed ones that returned, and the
\* timed ones whose work raised
CallsOf(i) == { m \in 1 .. Len(calls) : calls[m].i = i }
TimedReturned(i) == { m \in CallsOf(i) : calls[m].time_it /\ calls[m].ok }
TimedRaised(i) == { m \in CallsOf(i) : calls[m].time_it /\ ~calls[m].ok }

\* the statements conn.execute received from the work of Runner i
ExecutedOf(i) == { m \in 1 .. Len(executed) : executed[m][1] = runners[i].f }

\* this step is an invocation of a Runner / one whose work raised
IsInvocation == Len(calls') = Len(calls) + 1
LastCall == calls'[Len(calls')]
IsFailedInvocation == IsInvocation /\ ~LastCall.ok

\* the summary lines among the printed lines
IsSummaryLine(line) == line.kind = "summary"

\* C1: time_queries on a directory that does not exist raises FileNotFoundError
\* before the directory is enumerated, before a Runner is built and before
\* conn.execute is called: nothing has been executed when the error is raised,
\* whatever repeat is.
C1_MissingDirectoryFailsFast ==
  (~dirExists /\ pc # "call") =>
    /\ pc = "raised"
    /\ error = "FileNotFoundError"
    /\ ~globbed
    /\ runners = <<>>
    /\ calls = <<>>
    /\ executed = <<>>

C1_Witness == ~dirExists /\ error = "FileNotFoundError" /\ repeat = MaxRepeat

\* C2: when _run_runners has completed without a failure, every Runner has
\* repeat = N while its work has run N + 1 times; the priming invocation adds
\* nothing to repeat or total_time.
C2_PrimingExcludedFromStats ==
  pc \in { "print", "done" } =>
    \A i \in Indices :
      /\ runners[i].repeat = repeat
      /\ Cardinality(CallsOf(i)) = repeat + 1
      /\ Cardinality(ExecutedOf(i)) = repeat + 1
      /\ Cardinality(TimedReturned(i)) = repeat
      /\ runners[i].total_time = measured[i]

C2_Witness ==
  /\ pc = "done"
  /\ Len(runners) >= 2
  /\ repeat >= 1
  /\ \A i \in Indices : runners[i].repeat = repeat /\ runners[i].total_time > 0

\* the m-th invocation of a run over the Runners: the priming pass, then rounds
ExpectedCall(m) ==
  IF m <= Len(runners) THEN [ i |-> m, time_it |-> FALSE ]
  ELSE [ i |-> ((m - 1) % Len(runners)) + 1, time_it |-> TRUE ]

\* C3: the invocations of a run are r1..rk untimed in list order, then N rounds
\* of r1..rk timed in list order: no timed invocation precedes the priming of
\* any Runner, and no Runner starts its (m+1)-th timed invocation before every
\* Runner had its m-th.
C3_PrimingThenInterleavedRounds ==
  /\ Len(calls) <= Len(runners) * (repeat + 1)
  /\ \A m \in 1 .. Len(calls) :
       /\ calls[m].i = ExpectedCall(m).i
       /\ calls[m].time_it = ExpectedCall(m).time_it
  /\ pc \in { "print", "done" } => Len(calls) = Len(runners) * (repeat + 1)
  /\ (calls # <<>> /\ calls[Len(calls)].time_it) =>
       \* the invocation just made (every invocation is the last one of some state)
       LET timed(i) == Cardinality({ n \in CallsOf(i) : calls[n].time_it })
           mine == timed(calls[Len(calls)].i)
       IN  \A i \in Indices :
             /\ \E n \in CallsOf(i) : ~calls[n].time_it
             /\ timed(i) >= mine - 1

C3_Witness ==
  /\ pc = "timed"
  /\ Len(runners) >= 2
  /\ round = 2
  /\ j = 2

\* C5: when the work raises in the priming pass or a timed pass the run ends at
\* once: the failing invocation is the last one, the exception leaves
\* time_queries, no summary line is printed, and every other Runner keeps the
\* counters it had before the failing invocation.
C5_FailureAbortsRun ==
  [][ /\ IsFailedInvocation =>
           /\ pc' = "raised"
           /\ error' # "none"
           /\ \A i \in Indices : i # LastCall.i => runners'[i] = runners[i]
      /\ (\E m \in 1 .. Len(calls) : ~calls[m].ok) =>
           /\ calls' = calls
           /\ runners' = runners
           /\ executed' = executed
      /\ (\E m \in 1 .. Len(calls') : ~calls'[m].ok) =>
           \A n \in 1 .. Len(output') : ~IsSummaryLine(output'[n])
    ]_vars

C5_Witness ==
  /\ error = "ExecuteError"
  /\ pc = "raised"
  /\ Len(runners) >= 2
  /\ ~calls[Len(calls)].ok
  /\ calls[Len(calls)].time_it
  /\ \E i \in Indices : i # calls[Len(calls)].i /\ runners[i].total_time > 0
  /\ output = Banner

\* C10: in every state of a run, the state in which a failure ends it included,
\* for Runners ri before rj in the list ri.repeat - rj.repeat is 0 or 1.
C10_RepeatCountersBalanced ==
  \A a \in Indices : \A b \in Indices :
    a < b => runners[a].repeat - runners[b].repeat \in { 0, 1 }

C10_Witness ==
  /\ error = "ExecuteError"
  /\ Len(runners) >= 2
  /\ runners[1].repeat = 2
  /\ runners[2].repeat = 1

\* C4: when the wrapped work raises during an invocation, timed or not, the
\* failure reaches the caller and the Runner's repeat and total_time are what
\* they were before the invocation.
C4_FailedCallLeavesCounters ==
  [][ IsFailedInvocation =>
        /\ error' # "none"
        /\ runners'[LastCall.i].repeat = runners[LastCall.i].repeat
        /\ runners'[LastCall.i].total_time = runners[LastCall.i].total_time
    ]_vars

\* C6: the text of a statement file is read once, when its Runner is built:
\* every execution receives the text the file had then, also when the file
\* was rewritten or removed afterwards.
C6_TextReadOnceAtConstruction ==
  /\ \A m \in 1 .. Len(executed) : executed[m][2] = InitialText(executed[m][1])
  /\ error # "FileNotFoundError(file)"

\* C7: an invocation with time_it = False leaves repeat and total_time as they
\* were, whatever they were, and runs the wrapped work exactly once.
C7_UntimedLeavesCounters ==
  [][ (IsInvocation /\ ~LastCall.time_it) =>
        /\ \A i \in Indices :
             /\ runners'[i].repeat = runners[i].repeat
             /\ runners'[i].total_time = runners[i].total_time
        /\ Len(executed') = Len(executed) + 1
        /\ executed'[Len(executed')][1] = runners[LastCall.i].f
    ]_vars

C7_Witness ==
  /\ pc = "unit"
  /\ calls # <<>>
  /\ ~calls[Len(calls)].time_it
  /\ runners[calls[Len(calls)].i].repeat = 2
  /\ runners[calls[Len(calls)].i].total_time > 0

\* C8: a new Runner has repeat, total_time and average_time 0; after n timed
\* invocations that returned, with any untimed ones in between, repeat = n,
\* total_time is the sum of the n measured durations and the work ran once per
\* invocation; average_time is total_time / repeat, or 0 when repeat = 0, and
\* is always a number (no division by zero).
C8_CountersAndAverage ==
  \A i \in Indices :
    LET r == runners[i]
        avg == AverageTime(r)
    IN  /\ CallsOf(i) = {} => r.repeat = 0 /\ r.total_time = 0 /\ avg[1] = 0
        /\ TimedRaised(i) = {} => r.repeat = Cardinality(TimedReturned(i))
        /\ r.total_time = measured[i]
        /\ Cardinality(ExecutedOf(i)) = Cardinality(CallsOf(i))
        /\ avg[2] > 0
        /\ IF r.repeat = 0 THEN avg[1] = 0
           ELSE avg[1] * r.repeat = r.total_time * avg[2]

C8_Witness ==
  /\ pc = "unit"
  /\ \E i \in Indices :
       /\ Cardinality(TimedReturned(i)) = 2
       /\ TimedRaised(i) = {}
       /\ Cardinality(CallsOf(i)) = 3
       /\ runners[i].total_time = 3
       /\ AverageTime(runners[i]) = <<3, 2>>

\* total_time / repeat (0 for a Runner never timed), and the sum over the Runners
ClaimedAverage(r) == IF r.repeat = 0 THEN Zero ELSE Rat(r.total_time, r.repeat)
ClaimedTotal == RatSum([ i \in Indices |-> ClaimedAverage(runners[i]) ])

====
